---- MODULE Spec2Model ----
(***************************************************************************)
(* QuadCraft: the quadray (four-coordinate) voxel world.                   *)
(*                                                                         *)
(* The model covers Quadray (core/coordinate/Quadray.h), TetrahedralElement*)
(* and TetraChunk (core/world), World (core/world/World.h), the terrain    *)
(* generator's contract, the visibility pass of Game::render and           *)
(* ChunkMesher (render/mesh/ChunkMesher.cpp).                              *)
(*                                                                         *)
(* Numbers.  The program computes in 32-bit floats with the irrational     *)
(* factor scale = 1/ROOT2.  Geometry is modelled in exact arithmetic over  *)
(* the field Q(sqrt 2): a number is a pair <<u, v>> standing for           *)
(*     (u + v * sqrt 2) / DEN.                                             *)
(* Every value the modelled code computes from the bounded inputs is such  *)
(* a number, so floor(), max(), min() and the comparisons are decided      *)
(* exactly (the real-number semantics of the float code).  Float rounding  *)
(* itself is modelled where it decides the behaviour of the element map's  *)
(* hash: see the "binary32" section.                                       *)
(***************************************************************************)
EXTENDS Integers, Sequences, FiniteSets, TLC

(***************************************************************************)
(* Order of evaluation                                                     *)
(***************************************************************************)

\* e, evaluated once the value v has been computed (an argument is evaluated
\* before the call; the statements of a loop body run one after the other)
After(v, e) == IF v = v THEN e ELSE v

\* a function written out as its table of values (the same function)
Table(f) == f @@ <<>>

(***************************************************************************)
(* Exact numbers of Q(sqrt 2)                                              *)
(***************************************************************************)

\* Common denominator of the number representation: 9 for the thirds of
\* getVertices()/getNeighbors(), 64 for the repeated factor 1/ROOT2.
DEN == 9 * 64

QInt(n) == <<n * DEN, 0>>
QZero == <<0, 0>>
QAdd(x, y) == <<x[1] + y[1], x[2] + y[2]>>
QSub(x, y) == <<x[1] - y[1], x[2] - y[2]>>
QNeg(x) == <<0 - x[1], 0 - x[2]>>
QTimesInt(x, n) == <<x[1] * n, x[2] * n>>

\* n / m for an exactly divisible n (no value of m satisfies the CHOOSE otherwise)
ExactDiv(n, m) == CHOOSE k \in {n \div m} : k * m = n

QDivInt(x, n) == <<ExactDiv(x[1], n), ExactDiv(x[2], n)>>

\* u / v > sqrt 2 for integers u, v > 0, by the continued fraction of sqrt 2
\* (no squares, so no 32-bit overflow)
RECURSIVE GtRoot2(_, _)
GtRoot2(u, v) ==
    IF u >= 2 * v THEN TRUE
    ELSE IF u <= v THEN FALSE
    ELSE ~GtRoot2(2 * v - u, u - v)

\* sign of u + v * sqrt 2
QSign(x) ==
    LET u == x[1]
        v == x[2]
    IN  IF u = 0 /\ v = 0 THEN 0
        ELSE IF u >= 0 /\ v >= 0 THEN 1
        ELSE IF u <= 0 /\ v <= 0 THEN -1
        ELSE IF u > 0 THEN (IF GtRoot2(u, 0 - v) THEN 1 ELSE -1)
        ELSE (IF GtRoot2(0 - u, v) THEN -1 ELSE 1)

QLess(x, y) == QSign(QSub(x, y)) < 0
QLeq(x, y) == QSign(QSub(x, y)) <= 0
QMax(x, y) == IF QLess(x, y) THEN y ELSE x
QMin(x, y) == IF QLess(y, x) THEN y ELSE x
QAbs(x) == IF QSign(x) < 0 THEN QNeg(x) ELSE x

\* x * (1 / ROOT2) = x * sqrt 2 / 2:  (u + v r) * r / 2 = v + (u / 2) r
MulScale(x) == <<x[2], ExactDiv(x[1], 2)>>

\* x * y of two numbers, when the product is again a multiple of 1 / DEN;
\* the partial products are divided by DEN before they are summed
MulDivDen(x1, y1, x2, y2) ==
    (x1 \div DEN) * y1 + (x2 \div DEN) * y2
        + ExactDiv((x1 % DEN) * y1 + (x2 % DEN) * y2, DEN)

QMul(x, y) ==
    <<MulDivDen(x[1], y[1], 2 * x[2], y[2]), MulDivDen(x[1], y[2], x[2], y[1])>>

\* std::floor(x / n) for an integer n > 0, as an integer: a first estimate
\* with sqrt 2 ~ 1.414, then the exact comparison
QFloorDiv(x, n) ==
    LET k0 == (x[1] + (x[2] * 1414) \div 1000) \div (n * DEN)
    IN  After(x, CHOOSE k \in (k0 - 1)..(k0 + 1) :
                    /\ QLeq(QInt(k * n), x)
                    /\ QLess(x, QInt((k + 1) * n)))

(***************************************************************************)
(* Vector3 (core/coordinate/Vector3.h)                                     *)
(***************************************************************************)

Vector3(x, y, z) == [x |-> x, y |-> y, z |-> z]
Vector3Int(x, y, z) == Vector3(QInt(x), QInt(y), QInt(z))
VAdd(v, w) == Vector3(QAdd(v.x, w.x), QAdd(v.y, w.y), QAdd(v.z, w.z))
VSub(v, w) == Vector3(QSub(v.x, w.x), QSub(v.y, w.y), QSub(v.z, w.z))
VTimesInt(v, n) == Vector3(QTimesInt(v.x, n), QTimesInt(v.y, n), QTimesInt(v.z, n))
VDivInt(v, n) == Vector3(QDivInt(v.x, n), QDivInt(v.y, n), QDivInt(v.z, n))
lengthSquared(v) == QAdd(QAdd(QMul(v.x, v.x), QMul(v.y, v.y)), QMul(v.z, v.z))

(***************************************************************************)
(* Quadray (core/coordinate/Quadray.h)                                     *)
(***************************************************************************)

Quadray(a, b, c, d) == [a |-> a, b |-> b, c |-> c, d |-> d]
QuadrayInt(a, b, c, d) == Quadray(QInt(a), QInt(b), QInt(c), QInt(d))

\* a normalized that subtracts the first component, not the minimum (C13 must
\* tell it from normalized)
normalizedByFirst(q) ==
    LET minus(minVal) ==
            Quadray(QSub(q.a, minVal), QSub(q.b, minVal), QSub(q.c, minVal), QSub(q.d, minVal))
    IN  After(q, minus(q.a))

\* Quadray::normalized: subtract the minimum component
normalized(q) ==
    LET minus(minVal) ==
            Quadray(QSub(q.a, minVal), QSub(q.b, minVal), QSub(q.c, minVal), QSub(q.d, minVal))
    IN  After(q, minus(QMin(QMin(q.a, q.b), QMin(q.c, q.d))))

\* a toCartesian with the y and z rows exchanged (C15 must tell it from
\* toCartesian)
toCartesianSwapped(q) ==
    After(q, Vector3(MulScale(QAdd(QSub(QSub(q.a, q.b), q.c), q.d)),
                     MulScale(QSub(QSub(QAdd(q.a, q.b), q.c), q.d)),
                     MulScale(QSub(QAdd(QSub(q.a, q.b), q.c), q.d))))

\* Quadray::toCartesian
toCartesian(q) ==
    After(q, Vector3(MulScale(QAdd(QSub(QSub(q.a, q.b), q.c), q.d)),
                     MulScale(QSub(QAdd(QSub(q.a, q.b), q.c), q.d)),
                     MulScale(QSub(QSub(QAdd(q.a, q.b), q.c), q.d))))

Max0(x) == QMax(QZero, x)

\* a fromCartesian that drops the negative parts (C14 must tell it from
\* fromCartesian)
fromCartesianPositiveOnly(v) ==
    LET quadray(px, nx, py, ny, pz, nz) ==
            normalized(Quadray(MulScale(QAdd(QAdd(px, py), pz)),
                               MulScale(QAdd(QAdd(nx, ny), pz)),
                               MulScale(QAdd(QAdd(nx, py), nz)),
                               MulScale(QAdd(QAdd(px, ny), nz))))
    IN  After(v, quadray(Max0(v.x), QZero, Max0(v.y), QZero, Max0(v.z), QZero))

\* Quadray::fromCartesian; px = max(0, x), nx = max(0, -x), and so on
fromCartesian(v) ==
    LET quadray(px, nx, py, ny, pz, nz) ==
            normalized(Quadray(MulScale(QAdd(QAdd(px, py), pz)),
                               MulScale(QAdd(QAdd(nx, ny), pz)),
                               MulScale(QAdd(QAdd(nx, py), nz)),
                               MulScale(QAdd(QAdd(px, ny), nz))))
    IN  After(v, quadray(Max0(v.x), Max0(QNeg(v.x)), Max0(v.y), Max0(QNeg(v.y)),
                         Max0(v.z), Max0(QNeg(v.z))))

\* Quadray::operator+ (re-normalizes its result)
QuadrayPlus(q1, q2) ==
    normalized(Quadray(QAdd(q1.a, q2.a), QAdd(q1.b, q2.b), QAdd(q1.c, q2.c), QAdd(q1.d, q2.d)))

(***************************************************************************)
(* Block and BlockRegistry (core/world/Block.h)                            *)
(***************************************************************************)

AIR_BLOCK == 0
STONE_BLOCK == 1
DIRT_BLOCK == 2
GRASS_BLOCK == 3
WATER_BLOCK == 4
SAND_BLOCK == 5

\* Block(id, transparent, solid, name)
Block(id, transparent, solid, name) ==
    [id |-> id, transparent |-> transparent, solid |-> solid, name |-> name]

\* BlockRegistry::BlockRegistry: the default blocks
RegisteredBlocks ==
    {Block(AIR_BLOCK, TRUE, FALSE, "air"),
     Block(STONE_BLOCK, FALSE, TRUE, "stone"),
     Block(DIRT_BLOCK, FALSE, TRUE, "dirt"),
     Block(GRASS_BLOCK, FALSE, TRUE, "grass"),
     Block(WATER_BLOCK, TRUE, FALSE, "water"),
     Block(SAND_BLOCK, FALSE, TRUE, "sand")}

\* BlockRegistry::getBlock: the registered block, air for an unknown id
BlockRegistry_getBlock(id) ==
    IF \E b \in RegisteredBlocks : b.id = id
    THEN CHOOSE b \in RegisteredBlocks : b.id = id
    ELSE CHOOSE b \in RegisteredBlocks : b.id = AIR_BLOCK

(***************************************************************************)
(* TetrahedralElement (core/world/TetrahedralElement.h)                    *)
(***************************************************************************)

\* TetrahedralElement(pos, id): the position is stored normalized
TetrahedralElement(pos, id) == [position |-> normalized(pos), blockId |-> id]

\* TetrahedralElement::getVertices, with size = 0.5: the offsets
\* (0, size, 0), (2 size / 3, -size / 3, 0), (-size / 3, -size / 3, +-sqrt2 size / 3)
getVertices(element) ==
    LET half == <<ExactDiv(DEN, 2), 0>>
        third == <<ExactDiv(DEN, 3), 0>>
        sixth == <<ExactDiv(DEN, 6), 0>>
        rsixth == <<0, ExactDiv(DEN, 6)>>
        around(center) ==
            After(center,
                  Table([i \in 0..3 |->
                    CASE i = 0 -> VAdd(center, Vector3(QZero, half, QZero))
                      [] i = 1 -> VAdd(center, Vector3(third, QNeg(sixth), QZero))
                      [] i = 2 -> VAdd(center, Vector3(QNeg(sixth), QNeg(sixth), rsixth))
                      [] i = 3 -> VAdd(center, Vector3(QNeg(sixth), QNeg(sixth), QNeg(rsixth)))]))
    IN  around(toCartesian(element.position))

\* TetrahedralElement::getFaces: face index -> three vertex indices
getFaces ==
    [i \in 0..3 |->
        CASE i = 0 -> <<0, 1, 2>>
          [] i = 1 -> <<0, 2, 3>>
          [] i = 2 -> <<0, 3, 1>>
          [] i = 3 -> <<1, 3, 2>>]

(***************************************************************************)
(* TetraChunk (core/world/TetraChunk.h, TetraChunk.cpp)                    *)
(***************************************************************************)

CHUNK_SIZE == 16
CHUNK_GENERATION_RADIUS == 4
CHUNK_UNLOAD_DISTANCE == 8 * CHUNK_SIZE

\* |x| < epsilon = 1e-5, i.e. |u + v sqrt 2| * 100000 < DEN (both sides
\* divided by their common factor 32)
EpsLess(x) ==
    LET below(m) ==
            QSign(<<m[1] * (100000 \div 32) - (DEN \div 32), m[2] * (100000 \div 32)>>) < 0
    IN  below(QAbs(x))

\* QuadrayHash: std::hash<float> of the four normalized components, combined.
\* Two keys get the same hash exactly when their normalized components are
\* the same numbers; the value itself stands for the combined bits.
QuadrayHash(q) == normalized(q)

\* QuadrayEqual: normalized components differ by less than epsilon
QuadrayEqual(q1, q2) ==
    LET close(n1, n2) ==
            /\ EpsLess(QSub(n1.a, n2.a))
            /\ EpsLess(QSub(n1.b, n2.b))
            /\ EpsLess(QSub(n1.c, n2.c))
            /\ EpsLess(QSub(n1.d, n2.d))
    IN  close(normalized(q1), normalized(q2))

\* elements.find(q): the stored keys the unordered_map reaches for q
\* (same hash, equal under QuadrayEqual); at most one
Find(elements, q) ==
    After(q, {k \in DOMAIN elements : QuadrayHash(k) = QuadrayHash(q) /\ QuadrayEqual(k, q)})

\* TetraChunk::TetraChunk(int x, int y, int z)
TetraChunk(x, y, z) ==
    [chunkX |-> x, chunkY |-> y, chunkZ |-> z,
     position |-> QuadrayInt(x * CHUNK_SIZE, y * CHUNK_SIZE, z * CHUNK_SIZE, 0),
     isDirty |-> TRUE, isGenerated |-> FALSE, isVisible |-> FALSE,
     elements |-> <<>>]

\* TetraChunk::getBlock
TetraChunk_getBlock(chunk, quadPos) ==
    LET read(found) ==
            IF found # {}
            THEN chunk.elements[CHOOSE k \in found : TRUE].blockId
            ELSE AIR_BLOCK
    IN  read(Find(chunk.elements, quadPos))

\* a setBlock that forgets the dirty flag (C2 must tell it from setBlock)
setBlockKeepingFlag(chunk, quadPos, blockId) ==
    LET old == chunk.elements
        new(found) ==
            IF blockId = AIR_BLOCK
            THEN [k \in DOMAIN old \ found |-> old[k]]
            ELSE [k \in DOMAIN old \cup (IF found = {} THEN {quadPos} ELSE {}) |->
                    IF k \in found \cup {quadPos}
                    THEN TetrahedralElement(quadPos, blockId) ELSE old[k]]
    IN  After(quadPos, [chunk EXCEPT !.elements = Table(new(Find(old, quadPos)))])

\* a setBlock that stores air like any other block (C12 must tell it from
\* setBlock)
setBlockStoringAir(chunk, quadPos, blockId) ==
    LET old == chunk.elements
        new(found, element) ==
            IF found # {}
            THEN [k \in DOMAIN old |-> IF k \in found THEN element ELSE old[k]]
            ELSE [k \in DOMAIN old \cup {quadPos} |-> IF k = quadPos THEN element ELSE old[k]]
    IN  After(quadPos,
              [chunk EXCEPT
                  !.elements = Table(new(Find(old, quadPos),
                                         TetrahedralElement(quadPos, blockId))),
                  !.isDirty = TRUE])

\* TetraChunk::setBlock: erase for air, insert or overwrite otherwise; the
\* chunk becomes dirty
TetraChunk_setBlock(chunk, quadPos, blockId) ==
    LET old == chunk.elements
        new(found, element) ==
            IF blockId = AIR_BLOCK
            THEN [k \in DOMAIN old \ found |-> old[k]]
            ELSE IF found # {}
            THEN [k \in DOMAIN old |-> IF k \in found THEN element ELSE old[k]]
            ELSE [k \in DOMAIN old \cup {quadPos} |-> IF k = quadPos THEN element ELSE old[k]]
    IN  After(quadPos,
              [chunk EXCEPT
                  !.elements = Table(new(Find(old, quadPos),
                                         TetrahedralElement(quadPos, blockId))),
                  !.isDirty = TRUE])

\* (chunkX, chunkY, chunkZ) * CHUNK_SIZE
ChunkOrigin(chunk) ==
    Vector3Int(chunk.chunkX * CHUNK_SIZE, chunk.chunkY * CHUNK_SIZE, chunk.chunkZ * CHUNK_SIZE)

\* TetraChunk::worldToChunkSpace
worldToChunkSpace(chunk, worldPos) ==
    fromCartesian(VSub(toCartesian(worldPos), ChunkOrigin(chunk)))

\* a chunkToWorldSpace that forgets the chunk's origin (C17 must tell it from
\* chunkToWorldSpace)
chunkToWorldSpaceNoOrigin(chunk, localPos) ==
    fromCartesian(toCartesian(localPos))

\* TetraChunk::chunkToWorldSpace
chunkToWorldSpace(chunk, localPos) ==
    fromCartesian(VAdd(toCartesian(localPos), ChunkOrigin(chunk)))

\* TetraChunk::getCenter
getCenter(chunk) ==
    toCartesian(QuadrayPlus(chunk.position,
        QuadrayInt(CHUNK_SIZE \div 2, CHUNK_SIZE \div 2, CHUNK_SIZE \div 2, CHUNK_SIZE \div 2)))

\* TetraChunk::getNeighbors: the center reflected across each face.  With
\* v = faceCenter - center, dirToFace * 2 * |v| = (v / |v|) * 2 * |v| = 2 v.
getNeighbors(quadPos) ==
    LET element == TetrahedralElement(quadPos, AIR_BLOCK)
        neighborPos(center, faceCenter) ==
            After(faceCenter, VAdd(center, VTimesInt(VSub(faceCenter, center), 2)))
        across(tetraVertices, tetraFaces, center) ==
            After(<<tetraVertices, center>>,
                  Table([faceIndex \in 0..3 |->
                    fromCartesian(neighborPos(center,
                        VDivInt(VAdd(VAdd(tetraVertices[tetraFaces[faceIndex][1]],
                                          tetraVertices[tetraFaces[faceIndex][2]]),
                                     tetraVertices[tetraFaces[faceIndex][3]]), 3)))]))
    IN  After(quadPos, across(getVertices(element), getFaces, toCartesian(quadPos)))

(***************************************************************************)
(* TerrainGenerator (core/world/TerrainGenerator.h)                        *)
(*                                                                         *)
(* The noise function is outside the core (only its contract "given a      *)
(* world position, return a block type" matters).  determineBlockType      *)
(* keeps the code's decision structure with the noise-derived finalHeight  *)
(* replaced by the fixed TerrainHeight and without caves and ore veins;    *)
(* generateChunk samples the first GenCells cells per axis of the          *)
(* resolution^3 grid.                                                      *)
(***************************************************************************)

resolution == 8
GenCells == 1
TerrainHeight == 1

\* TerrainGenerator::determineBlockType
determineBlockType(pos) ==
    LET finalHeight == QInt(TerrainHeight)
    IN  IF QLess(pos.y, finalHeight)
        THEN IF QLess(QSub(finalHeight, QInt(1)), pos.y)
             THEN (IF TerrainHeight < 5 THEN SAND_BLOCK ELSE GRASS_BLOCK)
             ELSE IF QLess(QSub(finalHeight, QInt(4)), pos.y)
             THEN DIRT_BLOCK
             ELSE STONE_BLOCK
        ELSE IF QLess(pos.y, QInt(5))
        THEN WATER_BLOCK
        ELSE AIR_BLOCK

\* the five tetrahedra of a cube, as corner indices (corner i has bit 0 = x,
\* bit 1 = y, bit 2 = z)
tetraIndices == <<<<0, 1, 2, 5>>, <<2, 3, 5, 7>>, <<0, 2, 4, 5>>, <<2, 4, 5, 6>>, <<2, 5, 6, 7>>>>

Corner(position, size, i) ==
    VAdd(position, Vector3Int((i % 2) * size, ((i \div 2) % 2) * size, (i \div 4) * size))

\* TerrainGenerator::generateTetraElements: the tetrahedra of one cube, from
\* index t on
RECURSIVE generateTetraElements(_, _, _, _)
generateTetraElements(chunk, position, size, t) ==
    IF t > Len(tetraIndices) THEN chunk
    ELSE
        LET corners(i) == Corner(position, size, tetraIndices[t][i])
            place(center, blockId) ==
                IF blockId # AIR_BLOCK
                THEN TetraChunk_setBlock(chunk,
                        worldToChunkSpace(chunk, fromCartesian(center)), blockId)
                ELSE chunk
            tetrahedron(center) == place(center, determineBlockType(center))
            rest(next) == After(next, generateTetraElements(next, position, size, t + 1))
        IN  rest(tetrahedron(VDivInt(VAdd(VAdd(corners(1), corners(2)),
                                          VAdd(corners(3), corners(4))), 4)))

\* the cells (x, y, z) of generateChunk's loops, in loop order
GenCellSeq ==
    [i \in 1..(GenCells * GenCells * GenCells) |->
        <<(i - 1) \div (GenCells * GenCells), ((i - 1) \div GenCells) % GenCells, (i - 1) % GenCells>>]

\* TerrainGenerator::generateChunk, from cell n on
RECURSIVE generateChunk(_, _)
generateChunk(chunk, n) ==
    IF n > Len(GenCellSeq) THEN [chunk EXCEPT !.isGenerated = TRUE]
    ELSE
        LET cell == GenCellSeq[n]
            size == CHUNK_SIZE \div resolution
            \* localX * CHUNK_SIZE = (x / resolution) * CHUNK_SIZE
            world == Vector3Int(chunk.chunkX * CHUNK_SIZE + cell[1] * size,
                                chunk.chunkY * CHUNK_SIZE + cell[2] * size,
                                chunk.chunkZ * CHUNK_SIZE + cell[3] * size)
            rest(next) == After(next, generateChunk(next, n + 1))
        IN  rest(generateTetraElements(chunk, world, size, 1))

\* TetraChunk::generate
TetraChunk_generate(chunk) ==
    LET cleared == [chunk EXCEPT !.elements = <<>>]
        filled == generateChunk(cleared, 1)
    IN  [filled EXCEPT !.isGenerated = TRUE, !.isDirty = TRUE]

(***************************************************************************)
(* World (core/world/World.h).  The chunk map is a function from the key   *)
(* <<chunkX, chunkY, chunkZ>> to the chunk.                                *)
(***************************************************************************)

\* World::worldToChunkCoords
worldToChunkCoords(worldPos) ==
    <<QFloorDiv(worldPos.x, CHUNK_SIZE), QFloorDiv(worldPos.y, CHUNK_SIZE),
      QFloorDiv(worldPos.z, CHUNK_SIZE)>>

\* the chunk coordinates getOrCreateChunk, unloadChunk and getChunk(Quadray)
\* compute from a quadray position
QuadrayChunkCoords(quadPos) ==
    <<QFloorDiv(quadPos.a, CHUNK_SIZE), QFloorDiv(quadPos.b, CHUNK_SIZE),
      QFloorDiv(quadPos.c, CHUNK_SIZE)>>

\* World::getChunk(int, int, int): the chunk map after the call (an absent
\* chunk is created, not generated)
World_getChunk(ch, coords) ==
    IF coords \in DOMAIN ch THEN ch
    ELSE [k \in DOMAIN ch \cup {coords} |->
            IF k = coords THEN TetraChunk(coords[1], coords[2], coords[3]) ELSE ch[k]]

\* World::hasChunk
hasChunk(ch, coords) == coords \in DOMAIN ch

\* a getBlock that reads an unloaded chunk as stone (C4 must tell it from
\* getBlock)
getBlockUnloadedAsStone(ch, worldPos) ==
    LET read(coords) ==
            IF coords \notin DOMAIN ch THEN STONE_BLOCK
            ELSE TetraChunk_getBlock(ch[coords], worldToChunkSpace(ch[coords], worldPos))
    IN  After(worldPos, read(worldToChunkCoords(toCartesian(worldPos))))

\* World::getBlock
World_getBlock(ch, worldPos) ==
    LET read(coords) ==
            IF coords \notin DOMAIN ch THEN AIR_BLOCK
            ELSE TetraChunk_getBlock(ch[coords], worldToChunkSpace(ch[coords], worldPos))
    IN  After(worldPos, read(worldToChunkCoords(toCartesian(worldPos))))

\* World::setBlock: the chunk map after the call
World_setBlock(ch, worldPos, blockId) ==
    LET write(got, coords) ==
            [got EXCEPT ![coords] =
                TetraChunk_setBlock(got[coords], worldToChunkSpace(got[coords], worldPos),
                                    blockId)]
        chunkAt(coords) == write(World_getChunk(ch, coords), coords)
    IN  After(worldPos, chunkAt(worldToChunkCoords(toCartesian(worldPos))))

\* getOrCreateChunk: the chunk it makes for chunk coordinates that are not
\* loaded.  Generation reads nothing but the chunk, so the chunks of the
\* coordinates the operations reach (up to CHUNK_GENERATION_RADIUS chunks
\* around a position, normalized) are computed once.
generatedKeys == 0..(2 * CHUNK_GENERATION_RADIUS)

generatedChunks ==
    Table([k \in generatedKeys \X generatedKeys \X generatedKeys |->
            TetraChunk_generate(TetraChunk(k[1], k[2], k[3]))])

generatedChunk(coords) == generatedChunks[coords]

\* a getOrCreateChunk that generates a loaded chunk that is not generated yet
\* (C22 must tell it from getOrCreateChunk)
getOrCreateChunkGenerating(ch, coords) ==
    IF coords \in DOMAIN ch /\ ch[coords].isGenerated THEN ch
    ELSE [k \in DOMAIN ch \cup {coords} |->
            IF k = coords THEN generatedChunk(coords) ELSE ch[k]]

\* World::getOrCreateChunk, from the chunk coordinates on: the chunk map
\* after the call
getOrCreateChunkAt(ch, coords) ==
    IF coords \in DOMAIN ch THEN ch
    ELSE [k \in DOMAIN ch \cup {coords} |->
            IF k = coords THEN generatedChunk(coords) ELSE ch[k]]

\* World::getOrCreateChunk
getOrCreateChunk(ch, quadPos) == getOrCreateChunkAt(ch, QuadrayChunkCoords(quadPos))

\* the offsets (a, b, c, d) generateChunksAround visits for a radius
BallOffsets(r) ==
    {o \in ((0 - r)..r) \X ((0 - r)..r) \X ((0 - r)..r) \X ((0 - r)..r) :
        o[1] * o[1] + o[2] * o[2] + o[3] * o[3] + o[4] * o[4] <= r * r}

\* generateChunksAround: the radius after the adaptive increase
adaptiveRadius(center, radius) ==
    LET distSq == lengthSquared(toCartesian(center))
    IN  radius + (IF QLess(QInt(100 * 100), distSq) THEN 1 ELSE 0)
               + (IF QLess(QInt(200 * 200), distSq) THEN 1 ELSE 0)

\* generateChunksAround: the positions handed to getOrCreateChunk
generatePositions(center, radius) ==
    LET chunkCoords ==
            QuadrayInt(QFloorDiv(center.a, CHUNK_SIZE) * CHUNK_SIZE,
                       QFloorDiv(center.b, CHUNK_SIZE) * CHUNK_SIZE,
                       QFloorDiv(center.c, CHUNK_SIZE) * CHUNK_SIZE,
                       QFloorDiv(center.d, CHUNK_SIZE) * CHUNK_SIZE)
    IN  {QuadrayPlus(chunkCoords,
                     QuadrayInt(o[1] * CHUNK_SIZE, o[2] * CHUNK_SIZE,
                                o[3] * CHUNK_SIZE, o[4] * CHUNK_SIZE)) :
            o \in BallOffsets(adaptiveRadius(center, radius))}

\* a generateChunksAround that generates every chunk it visits again (C29
\* must tell it from generateChunksAround)
generateChunksAroundAgain(ch, center, radius) ==
    LET keys == {QuadrayChunkCoords(pos) : pos \in generatePositions(center, radius)}
    IN  [k \in DOMAIN ch \cup keys |-> IF k \in keys THEN generatedChunk(k) ELSE ch[k]]

\* World::generateChunksAround: getOrCreateChunk for every position; the
\* calls create disjoint chunks, so their order does not matter
generateChunksAround(ch, center, radius) ==
    LET keys == {QuadrayChunkCoords(pos) : pos \in generatePositions(center, radius)}
    IN  [k \in DOMAIN ch \cup keys |-> getOrCreateChunkAt(ch, k)[k]]

\* updateChunks: distanceSq > maxDistanceSq, where maxDistanceSq is
\* CHUNK_UNLOAD_DISTANCE^2 times heightFactor = min(1 + (h - 50) / 50, 2)
\* when the player height h exceeds 50
tooFar(distanceSq, playerHeight) ==
    LET maxDistanceSq == CHUNK_UNLOAD_DISTANCE * CHUNK_UNLOAD_DISTANCE
    IN  IF ~QLess(QInt(50), playerHeight)
        THEN QLess(QInt(maxDistanceSq), distanceSq)
        ELSE IF QLeq(QInt(100), playerHeight)
        THEN QLess(QInt(2 * maxDistanceSq), distanceSq)
        ELSE \* maxDistanceSq * (playerHeight / 50) < distanceSq
             QLess(QTimesInt(playerHeight, maxDistanceSq \div 2), QTimesInt(distanceSq, 25))

\* updateChunks: the keys collected in chunksToUnload
chunksToUnload(ch, playerPos) ==
    LET playerCartPos == toCartesian(playerPos)
    IN  {coords \in DOMAIN ch :
            /\ tooFar(lengthSquared(VSub(getCenter(ch[coords]), playerCartPos)),
                      playerCartPos.y)
            /\ ~ch[coords].isVisible}

maxChunksToUnload == 5

\* an unload loop without the limit (C19 must tell it from the unload loop)
unloadWithoutLimit(ch, playerPos) == {chunksToUnload(ch, playerPos)}

\* the unload loop erases the first maxChunksToUnload keys of chunksToUnload;
\* the order is that of the unordered_map, so any such subset may be erased
unloadChoices(ch, playerPos) ==
    LET firstOf(cand) ==
            IF Cardinality(cand) <= maxChunksToUnload THEN {cand}
            ELSE {R \in SUBSET cand : Cardinality(R) = maxChunksToUnload}
    IN  firstOf(chunksToUnload(ch, playerPos))

\* World::updateChunks, after its call of generateChunksAround has left the
\* chunk map generated: the unload loop erases a set R of unloadChoices
updateChunks(generated, playerPos) ==
    {[k \in DOMAIN generated \ R |-> generated[k]] : R \in unloadChoices(generated, playerPos)}

\* World::markAllChunksDirty
markAllChunksDirty(ch) == [k \in DOMAIN ch |-> [ch[k] EXCEPT !.isDirty = TRUE]]

\* World::getDirtyChunks
getDirtyChunks(ch) == {k \in DOMAIN ch : ch[k].isGenerated /\ ch[k].isDirty}

\* World::markChunkAsClean
markChunkAsClean(ch, coords) == [ch EXCEPT ![coords].isDirty = FALSE]

\* World::unloadChunk
unloadChunk(ch, quadPos) ==
    [k \in DOMAIN ch \ {QuadrayChunkCoords(quadPos)} |-> ch[k]]

\* World::getChunk(const Quadray&): the key of the chunk found, or "nullptr"
World_getChunkQuadray(ch, quadPos) ==
    LET find(coords) == IF coords \in DOMAIN ch THEN coords ELSE "nullptr"
    IN  find(QuadrayChunkCoords(quadPos))

\* TetraChunk::updateNeighborChunks: the loaded axis neighbours become dirty
neighborOffsets == {<<1, 0, 0>>, <<-1, 0, 0>>, <<0, 1, 0>>, <<0, -1, 0>>, <<0, 0, 1>>, <<0, 0, -1>>}

\* an updateNeighborChunks that asks the world for every neighbour without
\* hasChunk (C30 must tell it from updateNeighborChunks)
updateNeighborChunksLoading(ch, coords) ==
    LET neighbors == {<<coords[1] + o[1], coords[2] + o[2], coords[3] + o[3]>> : o \in neighborOffsets}
    IN  [k \in DOMAIN ch \cup neighbors |->
            IF k \in neighbors
            THEN [World_getChunk(ch, k)[k] EXCEPT !.isDirty = TRUE]
            ELSE ch[k]]

updateNeighborChunks(ch, coords) ==
    LET neighbors == {<<coords[1] + o[1], coords[2] + o[2], coords[3] + o[3]>> : o \in neighborOffsets}
    IN  [k \in DOMAIN ch |->
            IF k \in neighbors /\ hasChunk(ch, k)
            THEN [World_getChunk(ch, k)[k] EXCEPT !.isDirty = TRUE]
            ELSE ch[k]]

\* Game::render: every chunk's isVisible is cleared, then set for the chunks
\* drawn (in the frustum, with an initialized mesh): the set visible
renderVisibility(ch, visible) ==
    [k \in DOMAIN ch |-> [ch[k] EXCEPT !.isVisible = (k \in visible)]]

(***************************************************************************)
(* State                                                                   *)
(***************************************************************************)

VARIABLES
    chunks,     \* World::chunks: chunk key -> chunk
    op,         \* the last operation: its name, arguments, resolved key, result
    steps,      \* number of operations performed
    mesh,       \* the vertices/indices of the last createMeshForChunk call
    fmap,       \* an element map with binary32 keys (see "binary32")
    chunkMeshes \* Game::chunkMeshes: chunk key -> the mesh stored for it

vars == <<chunks, op, steps, mesh, fmap, chunkMeshes>>

NoMesh == [coords |-> <<>>, order |-> <<>>, faces |-> <<>>, vertices |-> <<>>, indices |-> <<>>]
NoFMap ==
    [elements |-> <<>>, name |-> "init", base |-> <<0, 0, 0, 0>>, ret |-> AIR_BLOCK,
     setBase |-> <<0, 0, 0, 0>>, setId |-> AIR_BLOCK, fresh |-> FALSE]

Op(name, pos, blockId, radius, coords, ret, retChunk) ==
    [name |-> name, pos |-> pos, blockId |-> blockId, radius |-> radius,
     coords |-> coords, ret |-> ret, retChunk |-> retChunk]

(***************************************************************************)
(* The World operations, called in any order by the game layer             *)
(***************************************************************************)

MaxSteps == 3

OriginPos == QuadrayInt(0, 0, 0, 0)
\* the origin again, not in canonical form
ShiftedPos == QuadrayInt(16, 16, 16, 16)
\* Euclidean (95 sqrt 2, 0, 0): beyond CHUNK_UNLOAD_DISTANCE from the origin
FarPos == QuadrayInt(95, 0, 0, 95)

Positions == {OriginPos, ShiftedPos, FarPos}
BlockIds == {AIR_BLOCK, STONE_BLOCK}
PlayerPositions == {OriginPos}
\* the chunks the game layer cleans, draws or calls updateNeighborChunks on
WatchKeys == {<<0, 0, 0>>, <<1, 1, 1>>, <<4, 0, 0>>, <<5, 0, 0>>, <<8, 0, 0>>}

\* the operations are explored while the world holds at most MaxLoaded chunks
MaxLoaded == 12

Step ==
    /\ steps < MaxSteps
    /\ Cardinality(DOMAIN chunks) <= MaxLoaded
    /\ steps' = steps + 1
Idle == UNCHANGED <<mesh, fmap, chunkMeshes>>

Init ==
    /\ chunks = <<>>
    /\ op = Op("init", OriginPos, AIR_BLOCK, 0, <<>>, AIR_BLOCK, <<>>)
    /\ steps = 0
    /\ mesh = NoMesh
    /\ fmap = NoFMap
    /\ chunkMeshes = <<>>

GetBlock(p) ==
    /\ Step /\ Idle
    /\ chunks' = chunks
    /\ op' = Op("getBlock", p, AIR_BLOCK, 0, worldToChunkCoords(toCartesian(p)),
                World_getBlock(chunks, p), <<>>)

SetBlock(p, id) ==
    /\ Step /\ Idle
    /\ chunks' = World_setBlock(chunks, p, id)
    /\ op' = Op("setBlock", p, id, 0, worldToChunkCoords(toCartesian(p)), AIR_BLOCK, <<>>)

GetOrCreateChunk(p) ==
    /\ Step /\ Idle
    /\ chunks' = getOrCreateChunk(chunks, p)
    /\ \E coords \in {QuadrayChunkCoords(p)} :
        op' = Op("getOrCreateChunk", p, AIR_BLOCK, 0, coords, AIR_BLOCK, coords)

GetChunk(p) ==
    /\ Step /\ Idle
    /\ chunks' = chunks
    /\ \E found \in {World_getChunkQuadray(chunks, p)} :
        op' = Op("getChunk", p, AIR_BLOCK, 0, QuadrayChunkCoords(p), AIR_BLOCK,
                 IF found = "nullptr" THEN <<>> ELSE found)

UnloadChunk(p) ==
    /\ Step /\ Idle
    /\ chunks' = unloadChunk(chunks, p)
    /\ op' = Op("unloadChunk", p, AIR_BLOCK, 0, QuadrayChunkCoords(p), AIR_BLOCK, <<>>)

GenerateChunksAround(center, radius) ==
    /\ Step /\ Idle
    /\ chunks' = generateChunksAround(chunks, center, radius)
    /\ op' = Op("generateChunksAround", center, AIR_BLOCK, radius, <<>>, AIR_BLOCK, <<>>)

UpdateChunks(playerPos) ==
    /\ Step /\ Idle
    /\ chunks' \in updateChunks(
                    generateChunksAround(chunks, playerPos, CHUNK_GENERATION_RADIUS),
                    playerPos)
    /\ op' = Op("updateChunks", playerPos, AIR_BLOCK, CHUNK_GENERATION_RADIUS, <<>>,
                AIR_BLOCK, <<>>)

MarkAllChunksDirty ==
    /\ Step /\ Idle
    /\ chunks' = markAllChunksDirty(chunks)
    /\ op' = Op("markAllChunksDirty", OriginPos, AIR_BLOCK, 0, <<>>, AIR_BLOCK, <<>>)

MarkChunkAsClean(coords) ==
    /\ Step /\ Idle
    /\ coords \in DOMAIN chunks
    /\ chunks' = markChunkAsClean(chunks, coords)
    /\ op' = Op("markChunkAsClean", OriginPos, AIR_BLOCK, 0, coords, AIR_BLOCK, <<>>)

UpdateNeighborChunks(coords) ==
    /\ Step /\ Idle
    /\ coords \in DOMAIN chunks
    /\ chunks' = updateNeighborChunks(chunks, coords)
    /\ op' = Op("updateNeighborChunks", OriginPos, AIR_BLOCK, 0, coords, AIR_BLOCK, <<>>)

Render(visible) ==
    /\ Step /\ Idle
    /\ visible \subseteq DOMAIN chunks
    /\ chunks' = renderVisibility(chunks, visible)
    /\ op' = Op("render", OriginPos, AIR_BLOCK, 0, <<>>, AIR_BLOCK, <<>>)

Next ==
    \/ \E p \in Positions : GetBlock(p)
    \/ \E p \in Positions, id \in BlockIds : SetBlock(p, id)
    \/ \E p \in Positions : GetOrCreateChunk(p)
    \/ \E p \in Positions : GetChunk(p)
    \/ \E p \in Positions : UnloadChunk(p)
    \/ \E p \in Positions : GenerateChunksAround(p, 0)
    \/ \E p \in PlayerPositions : UpdateChunks(p)
    \/ MarkAllChunksDirty
    \/ \E k \in WatchKeys : MarkChunkAsClean(k)
    \/ \E k \in WatchKeys : UpdateNeighborChunks(k)
    \/ \E v \in {{}} \cup {{k} : k \in WatchKeys} : Render(v)

Spec == Init /\ [][Next]_vars

(***************************************************************************)
(* Properties of the World operations                                      *)
(***************************************************************************)

\* C1, as stated: no operation removes from the chunk map a chunk whose
\* isVisible flag is true at the time of removal.
C1_UnloadNeverRemovesVisible ==
    [][\A k \in DOMAIN chunks : k \notin DOMAIN chunks' => ~chunks[k].isVisible]_vars

\* the chunk at k2 is one of the 6 axis neighbours of the chunk at k1
axisAdjacent(k1, k2) ==
    <<k2[1] - k1[1], k2[2] - k1[2], k2[3] - k1[3]>> \in neighborOffsets

\* C2, as stated: after setBlock the chunk is dirty; after markChunkAsClean it
\* is clean, and a clean chunk becomes dirty only by a setBlock of that chunk.
C2_CleanUntilSetBlock ==
    [][/\ op'.name = "setBlock" => chunks'[op'.coords].isDirty
       /\ op'.name = "markChunkAsClean" => ~chunks'[op'.coords].isDirty
       /\ \A k \in DOMAIN chunks \cap DOMAIN chunks' :
            ~chunks[k].isDirty /\ chunks'[k].isDirty =>
                op'.name = "setBlock" /\ op'.coords = k]_vars

\* C2, amended: after setBlock the chunk is dirty; after markChunkAsClean it
\* is clean, and a clean chunk becomes dirty only by a setBlock of that chunk,
\* by markAllChunksDirty, or by updateNeighborChunks of an axis-adjacent chunk.
C2_DirtyProtocol ==
    [][/\ op'.name = "setBlock" => chunks'[op'.coords].isDirty
       /\ op'.name = "markChunkAsClean" => ~chunks'[op'.coords].isDirty
       /\ \A k \in DOMAIN chunks \cap DOMAIN chunks' :
            ~chunks[k].isDirty /\ chunks'[k].isDirty =>
                \/ op'.name = "setBlock" /\ op'.coords = k
                \/ op'.name = "markAllChunksDirty"
                \/ op'.name = "updateNeighborChunks" /\ axisAdjacent(op'.coords, k)]_vars

\* a chunk that holds a block has been marked clean
C2_Witness ==
    /\ op.name = "markChunkAsClean"
    /\ op.coords \in DOMAIN chunks
    /\ chunks[op.coords].elements # <<>>
    /\ ~chunks[op.coords].isDirty

\* no key stored in the chunk names the point that quadPos names
keyAbsent(chunk, quadPos) ==
    \A k \in DOMAIN chunk.elements : toCartesian(k) # toCartesian(quadPos)

\* C4: World::getBlock returns AIR_BLOCK when the chunk the position resolves
\* to is not loaded, and when that chunk holds no element under the position's
\* key; it leaves the chunk map as it was.
C4_MissingReadsAsAir ==
    [][op'.name = "getBlock" =>
        /\ chunks' = chunks
        /\ op'.coords = worldToChunkCoords(toCartesian(op'.pos))
        /\ op'.coords \notin DOMAIN chunks => op'.ret = AIR_BLOCK
        /\ (/\ op'.coords \in DOMAIN chunks
            /\ keyAbsent(chunks[op'.coords],
                         worldToChunkSpace(chunks[op'.coords], op'.pos)))
              => op'.ret = AIR_BLOCK]_vars

\* getBlock has read a position of a chunk that is not loaded, in a world that
\* holds other chunks
C4_Witness ==
    /\ op.name = "getBlock"
    /\ chunks # <<>>
    /\ op.coords \notin DOMAIN chunks
    /\ op.ret = AIR_BLOCK

\* C5, as stated: every operation that resolves a chunk from a lattice
\* position resolves it to floor(Euclidean component / CHUNK_SIZE) per axis
\* (so two coordinates of one Euclidean point resolve to one chunk key).
C5_EuclideanResolution ==
    op.name \in {"getBlock", "setBlock", "getOrCreateChunk", "getChunk", "unloadChunk"}
        => op.coords = worldToChunkCoords(toCartesian(op.pos))

\* C6, as stated: the chunk getOrCreateChunk returns is generated.
C6_ReturnedChunkGenerated ==
    op.name = "getOrCreateChunk" =>
        /\ op.retChunk \in DOMAIN chunks
        /\ chunks[op.retChunk].isGenerated

\* C7, as stated: after generateChunksAround(center, 0) the chunk that
\* getBlock and setBlock resolve center to is loaded and generated.
C7_CenterChunkLoaded ==
    (op.name = "generateChunksAround" /\ op.radius = 0) =>
        /\ worldToChunkCoords(toCartesian(op.pos)) \in DOMAIN chunks
        /\ chunks[worldToChunkCoords(toCartesian(op.pos))].isGenerated

(***************************************************************************)
(* binary32.  The element map of a chunk is keyed by quadrays of floats.  A *)
(* float is written as the integer n of n * 2^-27; a result of + or - is    *)
(* rounded to 24 significant bits, to nearest, ties to even.                *)
(***************************************************************************)

FUnit == 2 ^ 27
FMantissa == 2 ^ 24

\* the spacing of the floats around n * 2^-27, n >= 0
RECURSIVE Ulp(_)
Ulp(n) == IF n < FMantissa THEN 1 ELSE 2 * Ulp(n \div 2)

RoundAbs(n) ==
    LET u == Ulp(n)
        q == n \div u
        r == n % u
    IN  IF 2 * r > u \/ (2 * r = u /\ q % 2 = 1) THEN (q + 1) * u ELSE q * u

RoundF(n) == IF n < 0 THEN 0 - RoundAbs(0 - n) ELSE RoundAbs(n)

fadd(x, y) == RoundF(x + y)
fsub(x, y) == RoundF(x - y)
fmin(x, y) == IF y < x THEN y ELSE x

\* the floats 0.1f, 0.5f, 1.0f
Tenth == RoundF((FUnit + 5) \div 10)
Half == FUnit \div 2
One == FUnit

\* Quadray::normalized in binary32, on <<a, b, c, d>>
normalized32(q) ==
    LET minVal == fmin(fmin(q[1], q[2]), fmin(q[3], q[4]))
    IN  <<fsub(q[1], minVal), fsub(q[2], minVal), fsub(q[3], minVal), fsub(q[4], minVal)>>

\* QuadrayHash in binary32: the combined std::hash<float> of the normalized
\* components; the same for two keys when their normalized floats are the same
QuadrayHash32(q) == normalized32(q)

\* |x - y| < epsilon = 1e-5f
EpsLess32(x, y) ==
    LET d == IF fsub(x, y) < 0 THEN 0 - fsub(x, y) ELSE fsub(x, y)
    IN  d <= FUnit \div 100000

\* QuadrayEqual in binary32
QuadrayEqual32(q1, q2) ==
    LET n1 == normalized32(q1)
        n2 == normalized32(q2)
    IN  \A i \in 1..4 : EpsLess32(n1[i], n2[i])

\* elements.find(q): the stored keys the lookup can reach.  It compares q,
\* with QuadrayEqual, to the keys of the bucket of q's hash: the keys of the
\* same hash, and the keys of another hash when that hash falls in the same
\* bucket (collide)
Find32(elements, q, collide) ==
    {k \in DOMAIN elements :
        QuadrayEqual32(k, q) /\ (QuadrayHash32(k) = QuadrayHash32(q) \/ collide)}

\* TetraChunk::getBlock on the float-keyed map; hit is the key found, or <<>>
getBlock32(elements, hit) == IF hit # <<>> THEN elements[hit] ELSE AIR_BLOCK

\* TetraChunk::setBlock on the float-keyed map; hit is the key found, or <<>>
setBlock32(elements, q, blockId, hit) ==
    IF blockId = AIR_BLOCK
    THEN [k \in DOMAIN elements \ {hit} |-> elements[k]]
    ELSE IF hit # <<>>
    THEN [elements EXCEPT ![hit] = blockId]
    ELSE [k \in DOMAIN elements \cup {q} |-> IF k = q THEN blockId ELSE elements[k]]

\* the key a lookup ends at: any reachable key, the order within a bucket
\* being unspecified, or none
Hits(elements, q, collide) ==
    IF Find32(elements, q, collide) = {} THEN {<<>>} ELSE Find32(elements, q, collide)

\* p + (k, k, k, k), k a whole number
Shifted32(p, k) ==
    <<fadd(p[1], k * One), fadd(p[2], k * One), fadd(p[3], k * One), fadd(p[4], k * One)>>

MaxShift == 1

LocalCoords == {<<0, 0, Tenth, 0>>, <<Half, 0, 0, One>>, <<One, 0, 0, 0>>}

SetBlock32(p, k, id) ==
    /\ Step
    /\ \E collide \in BOOLEAN :
        \E hit \in Hits(fmap.elements, Shifted32(p, k), collide) :
            fmap' = [elements |-> setBlock32(fmap.elements, Shifted32(p, k), id, hit),
                     name |-> "setBlock", base |-> p, ret |-> AIR_BLOCK,
                     setBase |-> p, setId |-> id, fresh |-> TRUE]
    /\ UNCHANGED <<chunks, op, mesh, chunkMeshes>>

GetBlock32(p, k) ==
    /\ Step
    /\ \E collide \in BOOLEAN :
        \E hit \in Hits(fmap.elements, Shifted32(p, k), collide) :
            fmap' = [fmap EXCEPT !.name = "getBlock", !.base = p,
                                 !.ret = getBlock32(fmap.elements, hit)]
    /\ UNCHANGED <<chunks, op, mesh, chunkMeshes>>

\* scale * x in binary32, scale = 1.0f / ROOT2 = 11863283 * 2^-24: the exact
\* product, formed in 12-bit limbs, rounded to 24 significant bits (the
\* float result for a product that is 0 or at least 2^-4 in magnitude, as
\* are the products of the positions WorldCoords)
fscale(x) ==
    LET limb == 2 ^ 12
        scale == 11863283
        mul(n) ==
            LET low == (n % limb) * (scale % limb)
                mid == (n \div limb) * (scale % limb) + (n % limb) * (scale \div limb)
                            + (low \div limb)
                whole == (n \div limb) * (scale \div limb) + (mid \div limb)
                rest == (mid % limb) * limb + (low % limb)
                u == Ulp(whole)
                q == whole \div u
                r == (whole % u) * FMantissa + rest
            IN  IF r > u * (FMantissa \div 2) \/ (r = u * (FMantissa \div 2) /\ q % 2 = 1)
                THEN (q + 1) * u ELSE q * u
    IN  IF x < 0 THEN 0 - mul(0 - x) ELSE mul(x)

\* Quadray::toCartesian in binary32, on <<a, b, c, d>>
toCartesian32(q) ==
    <<fscale(fadd(fsub(fsub(q[1], q[2]), q[3]), q[4])),
      fscale(fsub(fadd(fsub(q[1], q[2]), q[3]), q[4])),
      fscale(fsub(fsub(fadd(q[1], q[2]), q[3]), q[4]))>>

\* Quadray::fromCartesian in binary32, on <<x, y, z>>
fromCartesian32(v) ==
    LET max0(x) == IF x > 0 THEN x ELSE 0
        sum(x, y, z) == fscale(fadd(fadd(max0(x), max0(y)), max0(z)))
    IN  normalized32(<<sum(v[1], v[2], v[3]), sum(0 - v[1], 0 - v[2], v[3]),
                       sum(0 - v[1], v[2], 0 - v[3]), sum(v[1], 0 - v[2], 0 - v[3])>>)

\* TetraChunk::worldToChunkSpace and chunkToWorldSpace in binary32, for the
\* chunk (0, 0, 0), whose element map is fmap.elements
worldToChunkSpace32(worldPos) ==
    fromCartesian32([i \in 1..3 |-> fsub(toCartesian32(worldPos)[i], 0 * CHUNK_SIZE * One)])

chunkToWorldSpace32(localPos) ==
    fromCartesian32([i \in 1..3 |-> fadd(toCartesian32(localPos)[i], 0 * CHUNK_SIZE * One)])

\* World::worldToChunkCoords resolves the Euclidean position v to chunk
\* (0, 0, 0)
inChunkZero32(v) == \A i \in 1..3 : v[i] >= 0 /\ v[i] \div One < CHUNK_SIZE

\* world positions (1,0,0,0), (2,0,0,1) and (1,0,0,1) of chunk (0, 0, 0)
WorldCoords == {<<One, 0, 0, 0>>, <<2 * One, 0, 0, One>>, <<One, 0, 0, One>>}

\* World::setBlock(p, id), p a position of chunk (0, 0, 0)
WorldSetBlock32(p, id) ==
    /\ Step
    /\ inChunkZero32(toCartesian32(p))
    /\ \E collide \in BOOLEAN, key \in {worldToChunkSpace32(p)} :
        \E hit \in Hits(fmap.elements, key, collide) :
            fmap' = [elements |-> setBlock32(fmap.elements, key, id, hit),
                     name |-> "World::setBlock", base |-> p, ret |-> AIR_BLOCK,
                     setBase |-> key, setId |-> id, fresh |-> TRUE]
    /\ UNCHANGED <<chunks, op, mesh, chunkMeshes>>

\* ChunkMesher::getBlockAt(chunk, pos), pos a key World::setBlock has stored
\* in the chunk:
\* World::getBlock(chunk.chunkToWorldSpace(pos)); a position that resolves to
\* another chunk reads as air, that chunk not being loaded
GetBlockAt32(pos) ==
    /\ Step
    /\ pos \in DOMAIN fmap.elements
    /\ \E collide \in BOOLEAN, worldPos \in {chunkToWorldSpace32(pos)} :
        \E hit \in IF inChunkZero32(toCartesian32(worldPos))
                   THEN Hits(fmap.elements, worldToChunkSpace32(worldPos), collide)
                   ELSE {<<>>} :
            fmap' = [fmap EXCEPT !.name = "getBlockAt", !.base = pos,
                                 !.ret = getBlock32(fmap.elements, hit)]
    /\ UNCHANGED <<chunks, op, mesh, chunkMeshes>>

NextKeys ==
    \/ \E p \in LocalCoords, k \in 0..MaxShift, id \in BlockIds : SetBlock32(p, k, id)
    \/ \E p \in LocalCoords, k \in 0..MaxShift : GetBlock32(p, k)
    \/ \E p \in WorldCoords, id \in BlockIds : WorldSetBlock32(p, id)
    \/ \E p \in WorldCoords : GetBlockAt32(worldToChunkSpace32(p))

SpecKeys == Init /\ [][NextKeys]_vars

\* C3, as stated: getBlock(p), or getBlock of another form of p, that follows
\* setBlock(p, id), or setBlock of another form of p, with no setBlock in
\* between, returns id (air for id = air).
C3_SetGetRoundTrip ==
    (fmap.name = "getBlock" /\ fmap.fresh /\ fmap.base = fmap.setBase)
        => fmap.ret = fmap.setId

(***************************************************************************)
(* ChunkMesher (render/mesh/ChunkMesher.cpp).  A mesh is the list of faces  *)
(* emitted, each <<element key, face index>>, with the vertex list (each    *)
(* vertex <<element key, vertex index>>) and the index list.  The variable  *)
(* mesh holds the last mesh made and, in order, the traversal order of the  *)
(* element map of each chunk.                                               *)
(***************************************************************************)

\* ChunkMesher::getBlockAt
getBlockAt(ch, chunk, pos) == World_getBlock(ch, chunkToWorldSpace(chunk, pos))

\* shouldRenderFace variants that C8, C9 and C10 must tell from the mesher's
shouldRenderFaceAirOnly(ch, chunk, neighborPos) ==
    getBlockAt(ch, chunk, neighborPos) = AIR_BLOCK

shouldRenderFaceNever(ch, chunk, neighborPos) ==
    getBlockAt(ch, chunk, neighborPos) \notin Int

shouldRenderFaceAlways(ch, chunk, neighborPos) ==
    getBlockAt(ch, chunk, neighborPos) \in Int

\* ChunkMesher::shouldRenderFace
shouldRenderFace(ch, chunk, neighborPos) ==
    LET render(neighborType) ==
            neighborType = AIR_BLOCK \/ BlockRegistry_getBlock(neighborType).transparent
    IN  render(getBlockAt(ch, chunk, neighborPos))

\* the mesher's cap on the elements it visits (10000 in the source), scaled
\* to the chunks of the model
MAX_ELEMENTS == 2

\* createMeshForChunk, the loop over the faces of one element, from face i
\* on; neighbors is chunk.getNeighbors(pos)
RECURSIVE elementFaces(_, _, _, _, _)
elementFaces(ch, chunk, pos, neighbors, i) ==
    IF i > 3 THEN <<>>
    ELSE (IF shouldRenderFace(ch, chunk, neighbors[i])
          THEN <<<<pos, i>>>> ELSE <<>>)
         \o elementFaces(ch, chunk, pos, neighbors, i + 1)

\* createMeshForChunk, the loop over the elements from the n-th of the
\* traversal on; order is the iteration order of the element map
RECURSIVE meshFaces(_, _, _, _)
meshFaces(ch, chunk, order, n) ==
    IF n > Len(order) THEN <<>>
    ELSE IF n - 1 > MAX_ELEMENTS THEN <<>>
    ELSE (IF chunk.elements[order[n]].blockId = AIR_BLOCK THEN <<>>
          ELSE elementFaces(ch, chunk, order[n], getNeighbors(order[n]), 0))
         \o meshFaces(ch, chunk, order, n + 1)

\* the three vertices of face i: the vertices j # i, in increasing order
faceIndices(i) == SelectSeq(<<0, 1, 2, 3>>, LAMBDA j : j # i)

\* a createMeshForChunk that numbers the vertices of every face from 0 (C24
\* must tell it from createMeshForChunk)
createMeshRestartingIndices(ch, coords, order) ==
    LET create(faces) ==
            [coords |-> coords, faces |-> faces,
             vertices |-> [v \in 1..(3 * Len(faces)) |->
                            <<faces[((v - 1) \div 3) + 1][1],
                              faceIndices(faces[((v - 1) \div 3) + 1][2])[((v - 1) % 3) + 1]>>],
             indices |-> [v \in 1..(3 * Len(faces)) |-> (v - 1) % 3]]
    IN  create(meshFaces(ch, ch[coords], order, 1))

\* ChunkMesher::createMeshForChunk
createMeshForChunk(ch, coords, order) ==
    LET create(faces) ==
            [coords |-> coords, faces |-> faces,
             vertices |-> [v \in 1..(3 * Len(faces)) |->
                            <<faces[((v - 1) \div 3) + 1][1],
                              faceIndices(faces[((v - 1) \div 3) + 1][2])[((v - 1) % 3) + 1]>>],
             indices |-> [v \in 1..(3 * Len(faces)) |-> v - 1]]
    IN  create(meshFaces(ch, ch[coords], order, 1))

\* the orders in which a traversal can visit the keys of an element map; the
\* order of an unordered_map is unspecified, and fixed while the map is not
\* modified
Orders(elements) ==
    {o \in [1..Cardinality(DOMAIN elements) -> DOMAIN elements] :
        \A i, j \in DOMAIN o : i # j => o[i] # o[j]}

\* a traversal order for the element map of every chunk
WorldOrders(ch) ==
    {f \in [DOMAIN ch -> UNION {Orders(ch[c].elements) : c \in DOMAIN ch}] :
        \A c \in DOMAIN ch : f[c] \in Orders(ch[c].elements)}

(***************************************************************************)
(* Meshing: worlds that hold an element and the blocks at its four         *)
(* neighbour positions, each placed by World::setBlock                     *)
(***************************************************************************)

MeshBases == {OriginPos, QuadrayInt(1, 0, 0, 0)}
MeshIds == {AIR_BLOCK, STONE_BLOCK, WATER_BLOCK}

\* the world positions of the four neighbours of the element at world
\* position base
neighborWorldPositions(base) ==
    LET world(chunk, neighbors) ==
            After(neighbors, Table([i \in 0..3 |-> chunkToWorldSpace(chunk, neighbors[i])]))
        around(chunk) ==
            world(chunk, getNeighbors(normalized(worldToChunkSpace(chunk, base))))
        chunkAt(coords) == around(TetraChunk(coords[1], coords[2], coords[3]))
    IN  chunkAt(worldToChunkCoords(toCartesian(base)))

RECURSIVE placeNeighbors(_, _, _, _)
placeNeighbors(ch, base, ids, i) ==
    IF i > 3 THEN ch
    ELSE LET rest(next) == After(next, placeNeighbors(next, base, ids, i + 1))
         IN  rest(World_setBlock(ch, neighborWorldPositions(base)[i], ids[i + 1]))

InitMesh ==
    /\ \E base \in MeshBases, id \in MeshIds, ids \in [1..4 -> MeshIds] :
        chunks = placeNeighbors(World_setBlock(<<>>, base, id), base, ids, 0)
    /\ op = Op("init", OriginPos, AIR_BLOCK, 0, <<>>, AIR_BLOCK, <<>>)
    /\ steps = 0
    /\ \E order \in WorldOrders(chunks) : mesh = [NoMesh EXCEPT !.order = order]
    /\ fmap = NoFMap
    /\ chunkMeshes = <<>>

MaxMeshes == 1

CreateMeshForChunk(coords) ==
    /\ steps < MaxMeshes
    /\ steps' = steps + 1
    /\ coords \in DOMAIN chunks
    /\ mesh' = [order |-> mesh.order] @@ createMeshForChunk(chunks, coords, mesh.order[coords])
    /\ UNCHANGED <<chunks, op, fmap, chunkMeshes>>

NextMesh == \E coords \in DOMAIN chunks : CreateMeshForChunk(coords)

SpecMesh == InitMesh /\ [][NextMesh]_vars

(***************************************************************************)
(* Properties of the mesher                                                *)
(***************************************************************************)

\* the faces the last mesh holds
emitted == {mesh.faces[n] : n \in DOMAIN mesh.faces}

\* the meshed chunk
meshed == chunks[mesh.coords]

\* the block the mesher reads behind face i of the element at pos
neighborBlock(pos, i) == getBlockAt(chunks, meshed, getNeighbors(pos)[i])

\* the block lets the face in front of it show
seeThrough(id) == id = AIR_BLOCK \/ BlockRegistry_getBlock(id).transparent

\* the elements the traversal of the meshed chunk reaches before it stops
visited ==
    {mesh.order[mesh.coords][n] :
        n \in {m \in DOMAIN mesh.order[mesh.coords] : m <= MAX_ELEMENTS + 1}}

\* C8, as stated: for every element of the meshed chunk and every face i, the
\* mesh holds the face if and only if the block at the face's neighbour
\* position, looked up through World, is air or transparent.
C8_FaceIffNeighborSeeThrough ==
    mesh.coords # <<>> =>
        \A pos \in DOMAIN meshed.elements, i \in 0..3 :
            <<pos, i>> \in emitted <=> seeThrough(neighborBlock(pos, i))

\* C8, amended: the rule holds for the elements the traversal visits, the
\* first MAX_ELEMENTS + 1 of the chunk; the elements after them get no face.
C8_VisibilityRule ==
    mesh.coords # <<>> =>
        \A pos \in DOMAIN meshed.elements, i \in 0..3 :
            <<pos, i>> \in emitted <=>
                (pos \in visited /\ seeThrough(neighborBlock(pos, i)))

\* a mesh of a chunk with an element that shows a face to a transparent block
\* and hides a face from an opaque one
C8_Witness ==
    /\ mesh.coords # <<>>
    /\ \E pos \in visited, i, j \in 0..3 :
        /\ neighborBlock(pos, i) = WATER_BLOCK /\ <<pos, i>> \in emitted
        /\ neighborBlock(pos, j) = STONE_BLOCK /\ <<pos, j>> \notin emitted

\* the meshed chunk holds one element, solid, with air behind its four faces
isolatedSolid ==
    /\ mesh.coords # <<>>
    /\ Cardinality(DOMAIN meshed.elements) = 1
    /\ \A pos \in DOMAIN meshed.elements :
        /\ BlockRegistry_getBlock(meshed.elements[pos].blockId).solid
        /\ \A i \in 0..3 : neighborBlock(pos, i) = AIR_BLOCK

\* C9: a chunk whose only content is a single solid element with air at every
\* neighbour position meshes to 4 faces, 12 vertices and 12 indices.
C9_IsolatedElementFourFaces ==
    isolatedSolid =>
        Len(mesh.faces) = 4 /\ Len(mesh.vertices) = 12 /\ Len(mesh.indices) = 12

C9_Witness == isolatedSolid /\ Len(mesh.faces) = 4

\* the four neighbour positions of the element at pos hold solid,
\* non-transparent blocks
enclosed(pos) ==
    \A i \in 0..3 :
        /\ BlockRegistry_getBlock(neighborBlock(pos, i)).solid
        /\ ~BlockRegistry_getBlock(neighborBlock(pos, i)).transparent

\* C10: an element whose four neighbour positions hold solid, non-transparent
\* blocks contributes no face to the mesh.
C10_InteriorCulling ==
    mesh.coords # <<>> =>
        \A pos \in DOMAIN meshed.elements :
            enclosed(pos) => \A i \in 0..3 : <<pos, i>> \notin emitted

\* a mesh that holds faces, of a chunk in which the traversal visited an
\* enclosed element
C10_Witness ==
    /\ mesh.coords # <<>>
    /\ mesh.faces # <<>>
    /\ \E pos \in visited : enclosed(pos) /\ meshed.elements[pos].blockId # AIR_BLOCK

(***************************************************************************)
(* The coordinate functions, applied to inputs drawn from bounded sets.    *)
(* op records the call: its name, its argument (pos) and its result (ret). *)
(***************************************************************************)

Call(name, arg, ret) == Op(name, arg, AIR_BLOCK, 0, <<>>, ret, <<>>)

\* lattice components range over -MaxCoord..MaxCoord
MaxCoord == 3
\* Euclidean grid points range over -MaxGrid..MaxGrid on each axis
MaxGrid == 2
\* chunk coordinates range over -MaxChunk..MaxChunk on each axis
MaxChunk == 1

Lattice == {QuadrayInt(a, b, c, d) : a \in -MaxCoord..MaxCoord, b \in -MaxCoord..MaxCoord,
                                     c \in -MaxCoord..MaxCoord, d \in -MaxCoord..MaxCoord}
NonNegativeLattice == {QuadrayInt(a, b, c, d) : a \in 0..MaxCoord, b \in 0..MaxCoord,
                                                c \in 0..MaxCoord, d \in 0..MaxCoord}
\* the canonical coordinates: non-negative, with a zero component
CanonicalLattice == {q \in NonNegativeLattice : QZero \in {q.a, q.b, q.c, q.d}}
Grid == {Vector3Int(x, y, z) : x \in -MaxGrid..MaxGrid, y \in -MaxGrid..MaxGrid,
                               z \in -MaxGrid..MaxGrid}
ChunkKeys == (-MaxChunk..MaxChunk) \X (-MaxChunk..MaxChunk) \X (-MaxChunk..MaxChunk)

\* the functions are const: nothing but the record of the call changes
Pure == UNCHANGED <<chunks, steps, mesh, fmap, chunkMeshes>>

GetFaces(i) ==
    /\ Pure
    /\ op' = Call("getFaces", i, getFaces[i])

Normalized(q) ==
    /\ Pure
    /\ op' = Call("normalized", q, normalized(q))

FromCartesian(v) ==
    /\ Pure
    /\ op' = Call("fromCartesian", v, fromCartesian(v))

ToCartesian(q) ==
    /\ Pure
    /\ op' = Call("toCartesian", q, toCartesian(q))

ChunkToWorldSpace(coords, localPos) ==
    /\ Pure
    /\ op' = Call("chunkToWorldSpace", [chunk |-> coords, localPos |-> localPos],
                  chunkToWorldSpace(TetraChunk(coords[1], coords[2], coords[3]), localPos))

GetCenter(coords) ==
    /\ Pure
    /\ op' = Call("getCenter", coords, getCenter(TetraChunk(coords[1], coords[2], coords[3])))

\* QuadrayEqual and QuadrayHash of two binary32 keys
CompareKeys(q1, q2) ==
    /\ Pure
    /\ op' = Call("QuadrayEqual", <<q1, q2>>,
                  [equal |-> QuadrayEqual32(q1, q2),
                   hash1 |-> QuadrayHash32(q1), hash2 |-> QuadrayHash32(q2)])

\* one call is made on each input
Fresh == op.name = "init"

NextCoords ==
    \/ Fresh /\ \E i \in 0..3 : GetFaces(i)
    \/ Fresh /\ \E q \in Lattice : Normalized(q)
    \/ Fresh /\ \E v \in Grid : FromCartesian(v)
    \/ Fresh /\ \E q \in NonNegativeLattice : ToCartesian(q)
    \/ Fresh /\ \E coords \in ChunkKeys, p \in CanonicalLattice : ChunkToWorldSpace(coords, p)
    \/ Fresh /\ \E coords \in ChunkKeys : GetCenter(coords)
    \/ Fresh /\ \E p \in LocalCoords, k \in 0..MaxShift : CompareKeys(p, Shifted32(p, k))

SpecCoords == Init /\ [][NextCoords]_vars

\* C11: getFaces() returns four index triples, and face i consists of the
\* three vertex indices other than i.
C11_FaceOppositeVertex ==
    op.name = "getFaces" =>
        /\ Len(op.ret) = 3
        /\ {op.ret[j] : j \in 1..3} = (0..3) \ {op.pos}

(***************************************************************************)
(* Properties of the element maps under the World operations               *)
(***************************************************************************)

\* the keys of an element map that name the point quadPos names
storedAt(elements, quadPos) == {k \in DOMAIN elements : QuadrayEqual(k, quadPos)}

\* no element of any loaded chunk holds air
airFree(ch) ==
    \A k \in DOMAIN ch : \A pos \in DOMAIN ch[k].elements :
        ch[k].elements[pos].blockId # AIR_BLOCK

\* old and new differ in nothing but the entry for quadPos, which is absent
\* from new when blockId is air and holds blockId otherwise
onlyEntryWritten(old, new, quadPos, blockId) ==
    /\ \A k \in DOMAIN old \ storedAt(old, quadPos) : k \in DOMAIN new /\ new[k] = old[k]
    /\ DOMAIN new \ storedAt(new, quadPos) \subseteq DOMAIN old
    /\ blockId = AIR_BLOCK => storedAt(new, quadPos) = {}
    /\ blockId # AIR_BLOCK =>
        /\ Cardinality(storedAt(new, quadPos)) = 1
        /\ \A k \in storedAt(new, quadPos) : new[k].blockId = blockId

C12_WitnessAir ==
    /\ op.name = "setBlock"
    /\ op.blockId = AIR_BLOCK
    /\ op.coords \in DOMAIN chunks
    /\ chunks[op.coords].isGenerated
    /\ chunks[op.coords].elements # <<>>
    /\ storedAt(chunks[op.coords].elements,
                worldToChunkSpace(chunks[op.coords], op.pos)) = {}

(***************************************************************************)
(* Properties of the coordinate functions                                  *)
(***************************************************************************)

\* C13: for every lattice coordinate q, negative and all-equal components
\* included, the least component of normalized(q) is 0 and
\* normalized(normalized(q)) = normalized(q).
C13_NormalizedCanonical ==
    op.name = "normalized" =>
        /\ QMin(QMin(op.ret.a, op.ret.b), QMin(op.ret.c, op.ret.d)) = QZero
        /\ normalized(op.ret) = op.ret

\* normalized was applied to a coordinate with a negative least component
\* and with unequal components
C13_Witness ==
    /\ op.name = "normalized"
    /\ QLess(QMin(QMin(op.pos.a, op.pos.b), QMin(op.pos.c, op.pos.d)), QZero)
    /\ op.pos.a # op.pos.b
    /\ op.ret # op.pos

\* C14: for every Euclidean point p of the grid, of any signs,
\* fromCartesian(p).toCartesian() = p.
C14_EuclideanRoundTrip ==
    op.name = "fromCartesian" => toCartesian(op.ret) = op.pos

\* fromCartesian was applied to a point with a negative and a positive
\* coordinate
C14_Witness ==
    /\ op.name = "fromCartesian"
    /\ QLess(op.pos.x, QZero)
    /\ QLess(QZero, op.pos.y)
    /\ op.ret # QuadrayInt(0, 0, 0, 0)

C16_EqualKeysHashEqual ==
    op.name = "QuadrayEqual" => (op.ret.equal => op.ret.hash1 = op.ret.hash2)

\* C17: for every chunk and every canonical local coordinate p,
\* worldToChunkSpace(chunkToWorldSpace(p)) = p.
C17_ChunkSpaceRoundTrip ==
    op.name = "chunkToWorldSpace" =>
        worldToChunkSpace(TetraChunk(op.pos.chunk[1], op.pos.chunk[2], op.pos.chunk[3]),
                          op.ret) = op.pos.localPos

\* chunkToWorldSpace was applied in a chunk with a negative and a positive
\* coordinate, to a local coordinate other than the origin, and moved it
C17_Witness ==
    /\ op.name = "chunkToWorldSpace"
    /\ op.pos.chunk[1] < 0
    /\ op.pos.chunk[2] > 0
    /\ op.pos.localPos # QuadrayInt(0, 0, 0, 0)
    /\ op.ret # op.pos.localPos

\* C18: getCenter() of chunk (chunkX, chunkY, chunkZ) is the Euclidean point
\* ((chunkX + 1/2) CHUNK_SIZE, (chunkY + 1/2) CHUNK_SIZE, (chunkZ + 1/2) CHUNK_SIZE).
C18_CenterOfBoundingCube ==
    op.name = "getCenter" =>
        op.ret = Vector3Int(op.pos[1] * CHUNK_SIZE + CHUNK_SIZE \div 2,
                            op.pos[2] * CHUNK_SIZE + CHUNK_SIZE \div 2,
                            op.pos[3] * CHUNK_SIZE + CHUNK_SIZE \div 2)

(***************************************************************************)
(* Loading and unloading: the player has been far from the origin, the     *)
(* renderer has drawn some chunk, and the player is back at the origin     *)
(***************************************************************************)

\* Euclidean (112 sqrt 2, 0, 0) and (-112 sqrt 2, 0, 0): the chunks
\* generateChunksAround loads there are around or beyond CHUNK_UNLOAD_DISTANCE
\* from the origin
RemotePositions == {QuadrayInt(112, 0, 0, 112), QuadrayInt(0, 112, 112, 0)}

NextUnload ==
    \/ \E p \in RemotePositions : GenerateChunksAround(p, 0)
    \/ \E v \in {{k} : k \in DOMAIN chunks} : Render(v)
    \/ \E p \in PlayerPositions : UpdateChunks(p)

SpecUnload == Init /\ [][NextUnload]_vars

\* the chunk map updateChunks scans: the one its generateChunksAround call
\* has left
scanned(ch, playerPos) == generateChunksAround(ch, playerPos, CHUNK_GENERATION_RADIUS)

\* C19: a single updateChunks call removes at most 5 chunks from the chunk
\* map it scans, all of them chunks that qualify for unload; every other
\* chunk of that map, the qualifying ones included, stays loaded and
\* unchanged.
C19_UnloadRateLimited ==
    [][op'.name = "updateChunks" =>
        \E generated \in {scanned(chunks, op'.pos)} :
            /\ DOMAIN chunks' \subseteq DOMAIN generated
            /\ Cardinality(DOMAIN generated \ DOMAIN chunks') <= 5
            /\ DOMAIN generated \ DOMAIN chunks' \subseteq chunksToUnload(generated, op'.pos)
            /\ \A k \in DOMAIN chunks' : chunks'[k] = generated[k]
            /\ \A k \in DOMAIN chunks \cap DOMAIN chunks' : chunks'[k] = chunks[k]]_vars

\* updateChunks has returned and a chunk that qualifies for unload is still
\* loaded: more than 5 chunks qualified
C19_Witness ==
    /\ op.name = "updateChunks"
    /\ chunksToUnload(chunks, op.pos) # {}

\* C20: the vertex and index lists of a mesh depend on nothing but the
\* contents of the chunks: whatever order the element map of the meshed chunk
\* is traversed in (the order insertions and erasures have left it in),
\* createMeshForChunk produces the lists it has produced.
C20_MeshIndependentOfOrder ==
    mesh.coords # <<>> =>
        \A order \in Orders(chunks[mesh.coords].elements) :
            /\ createMeshForChunk(chunks, mesh.coords, order).vertices = mesh.vertices
            /\ createMeshForChunk(chunks, mesh.coords, order).indices = mesh.indices

(***************************************************************************)
(* Game::updateChunkMeshes: the meshes of dirty chunks are rebuilt, at     *)
(* most maxChunksToProcess of them in a call                               *)
(***************************************************************************)

\* ChunkMesher::createSimplifiedMesh: four vertices of a unit square, two
\* triangles
createSimplifiedMesh ==
    [faces |-> <<>>,
     vertices |-> <<Vector3Int(0, 0, 0), Vector3Int(1, 0, 0), Vector3Int(1, 1, 0),
                    Vector3Int(0, 1, 0)>>,
     indices |-> <<0, 1, 2, 0, 2, 3>>]

\* a loop that never reaches a chunk (C28 must tell it from the loop)
processNone(dirty, maxChunksToProcess) == {{}}

\* the chunks the loop reaches before processedChunks >= maxChunksToProcess:
\* the first maxChunksToProcess of getDirtyChunks(), whose order is that of
\* the chunk map, so any such subset may be reached
processChoices(dirty, maxChunksToProcess) ==
    IF Cardinality(dirty) <= maxChunksToProcess THEN {dirty}
    ELSE {R \in SUBSET dirty : Cardinality(R) = maxChunksToProcess}

\* an updateChunkMeshes whose catch block gives up on the chunk: no mesh is
\* stored and the chunk stays dirty (C21 must tell it from updateChunkMeshes)
updateChunkMeshesGivingUp(ch, meshes, processed, failed, order) ==
    [chunks |-> [k \in DOMAIN ch |->
                    IF k \in processed \ failed THEN [ch[k] EXCEPT !.isDirty = FALSE]
                    ELSE ch[k]],
     chunkMeshes |-> [k \in DOMAIN meshes \cup (processed \ failed) |->
                        IF k \in processed \ failed
                        THEN [i \in {"faces", "vertices", "indices"} |->
                                createMeshForChunk(ch, k, order[k])[i]]
                        ELSE meshes[k]]]

\* Game::updateChunkMeshes for the chunks processed, of which createMeshForChunk
\* throws for those in failed: the chunk map and chunkMeshes after the call
updateChunkMeshes(ch, meshes, processed, failed, order) ==
    [chunks |-> [k \in DOMAIN ch |->
                    IF k \in processed THEN [ch[k] EXCEPT !.isDirty = FALSE] ELSE ch[k]],
     chunkMeshes |-> [k \in DOMAIN meshes \cup processed |->
                        IF k \in failed THEN createSimplifiedMesh
                        ELSE IF k \in processed
                        THEN [i \in {"faces", "vertices", "indices"} |->
                                createMeshForChunk(ch, k, order[k])[i]]
                        ELSE meshes[k]]]

\* maxChunksToProcess ranges over 1..MaxProcess
MaxProcess == 2

\* positions getOrCreateChunk resolves to the chunks (1,1,1) and (0,1,0),
\* which lie above the terrain
LoadPositions == {QuadrayInt(16, 16, 16, 0), QuadrayInt(0, 16, 0, 0)}
\* Euclidean (12 sqrt 2, 12 sqrt 2, 12 sqrt 2) in chunk (1,1,1) and
\* (sqrt 2 / 2, 25 sqrt 2 / 2, sqrt 2 / 2) in chunk (0,1,0)
EditPositions == {QuadrayInt(24, 0, 0, 0), QuadrayInt(13, 0, 12, 0)}

UpdateChunkMeshes(maxChunksToProcess) ==
    /\ \E processed \in processChoices(getDirtyChunks(chunks), maxChunksToProcess) :
       \E failed \in SUBSET processed :
       \E order \in WorldOrders(chunks) :
       \E after \in {updateChunkMeshes(chunks, chunkMeshes, processed, failed, order)} :
            /\ chunks' = after.chunks
            /\ chunkMeshes' = after.chunkMeshes
            /\ op' = Op("updateChunkMeshes", OriginPos, AIR_BLOCK, maxChunksToProcess, <<>>,
                        [processed |-> processed, failed |-> failed], <<>>)
    /\ UNCHANGED <<steps, mesh, fmap>>

NextGame ==
    \/ \E p \in LoadPositions : GetOrCreateChunk(p)
    \/ \E p \in EditPositions, id \in BlockIds : SetBlock(p, id)
    \/ MarkAllChunksDirty
    \/ \E n \in 1..MaxProcess : UpdateChunkMeshes(n)

SpecGame == Init /\ [][NextGame]_vars

\* C21: when createMeshForChunk throws for a dirty chunk, updateChunkMeshes
\* stores the fallback mesh under the chunk's key and marks the chunk clean;
\* the call returns, and the other chunks it reaches are meshed and marked
\* clean as well.
C21_MeshFailureContained ==
    op.name = "updateChunkMeshes" =>
        /\ \A k \in op.ret.failed :
            /\ k \in DOMAIN chunkMeshes /\ chunkMeshes[k] = createSimplifiedMesh
            /\ k \in DOMAIN chunks /\ ~chunks[k].isDirty
        /\ \A k \in op.ret.processed \ op.ret.failed :
            /\ k \in DOMAIN chunkMeshes /\ chunkMeshes[k] # createSimplifiedMesh
            /\ ~chunks[k].isDirty

\* a call in which createMeshForChunk threw for one chunk and made the mesh
\* of another
C21_Witness ==
    /\ op.name = "updateChunkMeshes"
    /\ op.ret.failed # {}
    /\ op.ret.processed \ op.ret.failed # {}

\* the game loop calls updateChunkMeshes in every frame.  A call changes the
\* state whenever a dirty chunk exists, so weak fairness of the calls,
\* WF_vars(\E n \in 1..MaxProcess : UpdateChunkMeshes(n)), implies the
\* condition below, which is written without ENABLED
SpecGameFair ==
    /\ Init /\ [][NextGame]_vars
    /\ \/ []<>(getDirtyChunks(chunks) = {})
       \/ []<><<\E n \in 1..MaxProcess : UpdateChunkMeshes(n)>>_vars

\* C28: once no operation marks a chunk dirty any more (the edits, loads and
\* markAllChunksDirty calls are used up), the calls of updateChunkMeshes(n),
\* n >= 1, reach a state in which getDirtyChunks() is empty; and every chunk a
\* call has processed is clean after it.
C28_RemeshingProgress ==
    /\ (steps = MaxSteps) ~> (getDirtyChunks(chunks) = {})
    /\ [][op'.name = "updateChunkMeshes" =>
            \A k \in op'.ret.processed : ~chunks'[k].isDirty]_vars

\* the dirty chunks outnumbered maxChunksToProcess, one was left for a later
\* call, and now no dirty chunk is left although no edit can follow
C28_Witness ==
    /\ steps = MaxSteps
    /\ op.name = "updateChunkMeshes"
    /\ op.radius = 1
    /\ Cardinality(DOMAIN chunkMeshes) = 2
    /\ getDirtyChunks(chunks) = {}

(***************************************************************************)
(* Further properties of the World operations                              *)
(***************************************************************************)

\* C22: generate() runs on a chunk only when the chunk is created: a loaded
\* chunk that is not generated stays so, isGenerated never returns from true
\* to false while the chunk is loaded, and the elements of a loaded chunk
\* change by nothing but a setBlock of that chunk, so generation never erases
\* a block that setBlock has written.
C22_GeneratedOnceAtCreation ==
    [][\A k \in DOMAIN chunks \cap DOMAIN chunks' :
        /\ chunks'[k].isGenerated = chunks[k].isGenerated
        /\ chunks'[k].elements # chunks[k].elements =>
            op'.name = "setBlock" /\ op'.coords = k]_vars

\* getOrCreateChunk has returned a loaded chunk that was made by setBlock: it
\* is not generated and holds the block
C22_Witness ==
    /\ op.name = "getOrCreateChunk"
    /\ op.coords \in DOMAIN chunks
    /\ ~chunks[op.coords].isGenerated
    /\ chunks[op.coords].elements # <<>>

(***************************************************************************)
(* Further properties of the mesher                                        *)
(***************************************************************************)

\* the centre of the element at pos reflected across the triangle
\* createMeshForChunk emits for face index i: the vertices faceIndices(i)
acrossEmittedFace(pos, i) ==
    LET reflect(center, tetraVertices, triple) ==
            fromCartesian(
                VAdd(center,
                     VTimesInt(VSub(VDivInt(VAdd(VAdd(tetraVertices[triple[1]],
                                                      tetraVertices[triple[2]]),
                                                 tetraVertices[triple[3]]), 3),
                                    center), 2)))
    IN  reflect(toCartesian(pos), getVertices(TetrahedralElement(pos, AIR_BLOCK)),
                faceIndices(i))

\* C23: for every element the mesher visits and every face index i, the
\* position neighbors[i] that decides the visibility of face i is the
\* reflection of the element's centre across the triangle emitted for i.
C23_NeighborAcrossEmittedFace ==
    mesh.coords # <<>> =>
        \A pos \in visited : \A i \in 0..3 :
            getNeighbors(pos)[i] = acrossEmittedFace(pos, i)

\* C24: after createMeshForChunk the index list is as long as the vertex
\* list, 3 entries for every emitted face, and index k has the value k, so
\* every index refers to an existing vertex.
C24_MeshBuffersWellFormed ==
    mesh.coords # <<>> =>
        /\ Len(mesh.indices) = Len(mesh.vertices)
        /\ Len(mesh.vertices) = 3 * Len(mesh.faces)
        /\ \A k \in 1..Len(mesh.indices) :
            /\ mesh.indices[k] = k - 1
            /\ mesh.indices[k] + 1 \in DOMAIN mesh.vertices

\* a mesh of two elements with at least one face each
C24_Witness ==
    /\ mesh.coords # <<>>
    /\ Cardinality({mesh.faces[n][1] : n \in DOMAIN mesh.faces}) >= 2
    /\ Len(mesh.vertices) >= 6


\* C25, as stated: after setBlock(p, id) the chunk p resolves to is in the
\* result of getDirtyChunks(), for every p, and it stays there while it is
\* loaded until an operation marks it clean.
C25_EditReachesRemeshQueue ==
    [][/\ op'.name = "setBlock" => op'.coords \in getDirtyChunks(chunks')
       /\ \A k \in getDirtyChunks(chunks) :
            k \in DOMAIN chunks' /\ k \notin getDirtyChunks(chunks')
                => op'.name = "markChunkAsClean" /\ op'.coords = k]_vars

\* the part of C25 that fails: the chunk of the last setBlock is in the
\* result of getDirtyChunks()
C25_EditedChunkQueued ==
    op.name = "setBlock" => op.coords \in getDirtyChunks(chunks)


(***************************************************************************)
(* updateChunks for a player away from the origin                          *)
(***************************************************************************)

\* Quadray::fromCartesian of the Euclidean position (40 sqrt 2, 0, 0)
DiagonalPos == QuadrayInt(40, 0, 0, 40)

NextEvict ==
    \/ \E p \in LoadPositions : GetOrCreateChunk(p)
    \/ \E p \in EditPositions, id \in BlockIds : SetBlock(p, id)
    \/ \E p \in {DiagonalPos} : UpdateChunks(p)

SpecEvict == Init /\ [][NextEvict]_vars

\* C26, as stated: every chunk the generateChunksAround step of an
\* updateChunks call has created is loaded when the call returns.
C26_FreshChunksSurvive ==
    [][op'.name = "updateChunks" =>
        DOMAIN scanned(chunks, op'.pos) \ DOMAIN chunks \subseteq DOMAIN chunks']_vars


(***************************************************************************)
(* Further properties of the element map                                   *)
(***************************************************************************)

\* the Euclidean world position of every stored element lies in the chunk
\* that stores it (exact arithmetic)
ElementsInOwningChunk ==
    \A k \in DOMAIN chunks : \A pos \in DOMAIN chunks[k].elements :
        worldToChunkCoords(VAdd(toCartesian(pos), ChunkOrigin(chunks[k]))) = k

\* C27, as stated: the world position of every element stored through
\* World::setBlock lies in the chunk that stores it, and the mesher's lookup
\* getBlockAt(chunk, pos) of a stored key pos returns the block stored under
\* pos.
C27_StoredKeyFoundByMesher ==
    /\ (fmap.name = "World::setBlock" /\ fmap.setId # AIR_BLOCK)
        => inChunkZero32(toCartesian32(chunkToWorldSpace32(fmap.setBase)))
    /\ fmap.name = "getBlockAt" => fmap.ret = fmap.elements[fmap.base]


(***************************************************************************)
(* Frame conditions of the World operations                                *)
(***************************************************************************)

\* C29: generateChunksAround removes no loaded chunk and changes neither the
\* elements nor a flag of a chunk that was loaded before the call; a second
\* call with the same arguments leaves the chunk map as it is.
C29_GenerateOnlyAdds ==
    [][op'.name = "generateChunksAround" =>
        /\ DOMAIN chunks \subseteq DOMAIN chunks'
        /\ \A k \in DOMAIN chunks : chunks'[k] = chunks[k]
        /\ generateChunksAround(chunks', op'.pos, op'.radius) = chunks']_vars

\* generateChunksAround has visited a chunk that setBlock had created, not
\* generated, and holding an element, and has added generated chunks
C29_Witness ==
    /\ op.name = "generateChunksAround"
    /\ \E k \in {QuadrayChunkCoords(pos) : pos \in generatePositions(op.pos, op.radius)} :
        /\ k \in DOMAIN chunks
        /\ ~chunks[k].isGenerated
        /\ DOMAIN chunks[k].elements # {}
    /\ \E k \in DOMAIN chunks : chunks[k].isGenerated

\* C30: updateNeighborChunks sets isDirty on the loaded chunks among the 6
\* axis neighbours of the chunk, and changes nothing else: the same chunks
\* are loaded, and every other flag and the elements of every chunk stay.
C30_NeighborDirtyingLoadsNothing ==
    [][op'.name = "updateNeighborChunks" =>
        /\ DOMAIN chunks' = DOMAIN chunks
        /\ \A k \in DOMAIN chunks :
            chunks'[k] = IF axisAdjacent(op'.coords, k)
                         THEN [chunks[k] EXCEPT !.isDirty = TRUE]
                         ELSE chunks[k]]_vars

\* updateNeighborChunks of a chunk with a loaded neighbour and a neighbour
\* that is not loaded
C30_Witness ==
    /\ op.name = "updateNeighborChunks"
    /\ \E k \in DOMAIN chunks : axisAdjacent(op.coords, k) /\ chunks[k].isDirty
    /\ \E o \in neighborOffsets :
        <<op.coords[1] + o[1], op.coords[2] + o[2], op.coords[3] + o[3]>> \notin DOMAIN chunks

====
